---- MODULE Spec2Model ----
(***************************************************************************)
(* Model of the Everstorm RAG chatbot core:                                *)
(*   - rag/pipeline.py   RAGPipeline._build_prompt, RAGPipeline.ask        *)
(*   - rag/evaluator.py  InlineLLMJudge.evaluate_answer (judge loop)       *)
(*   - app/main.py       the /chat handler and its metrics                 *)
(*                                                                         *)
(* Python str values are sequences of one-character strings, so that       *)
(* strip, upper, split, slicing and the `in` operator are computed.        *)
(* Optional values: None is <<>> and a present value v is <<v>>.           *)
(* Temperatures are in hundredths (0.1 is 10).                            *)
(***************************************************************************)
EXTENDS Integers, Sequences, FiniteSets, TLC

VARIABLES max_cycles, runs, metrics, handled, failed, asked, request, response,
          llm_invocation

vars == <<max_cycles, runs, metrics, handled, failed, asked, request, response,
          llm_invocation>>

\* ------------------------------------------------------------------ bounds
MaxCyclesBound == 3

MaxRequests == 2

MaxRetrieved == 2

\* number of evaluate_answer calls in flight on one judge
NumRuns == 2

\* -------------------------------------------------------- program constants
PreviewLen == 300

\* settings.top_k
top_k_default == 5

\* settings.llm_temperature, in hundredths
llm_temperature == 10

\* settings.judge_temperature, in hundredths
judge_temperature == 1

\* InlineLLMJudge.__init__ default of max_cycles
max_cycles_default == 1

\* InlineLLMJudge(max_cycles=3) of scripts/run_offline_eval.py
max_cycles_offline == 3

\* ---------------------------------------------------------- optional values
None == <<>>

Some(v) == <<v>>

\* Python `a or b` on an Optional[int]: None and 0 are falsy
OrElse(a, b) == IF a = None \/ a = Some(0) THEN b ELSE a[1]

\* ------------------------------------------------------------- str helpers
Min(a, b) == IF a <= b THEN a ELSE b

LowerChars == <<"a","b","c","d","e","f","g","h","i","j","k","l","m",
                "n","o","p","q","r","s","t","u","v","w","x","y","z">>

UpperChars == <<"A","B","C","D","E","F","G","H","I","J","K","L","M",
                "N","O","P","Q","R","S","T","U","V","W","X","Y","Z">>

Whitespace == {" ", "\n", "\t", "\r"}

\* str.upper(), one character
UpperChar(c) ==
    IF \E i \in 1..26 : LowerChars[i] = c
    THEN UpperChars[CHOOSE i \in 1..26 : LowerChars[i] = c]
    ELSE c

\* str.upper()
upper(s) == [i \in 1..Len(s) |-> UpperChar(s[i])]

\* str.strip(): drop leading and trailing whitespace
strip(s) ==
    LET keep == {i \in 1..Len(s) : s[i] \notin Whitespace}
    IN  IF keep = {} THEN <<>>
        ELSE LET lo == CHOOSE i \in keep : \A j \in keep : i <= j
                 hi == CHOOSE i \in keep : \A j \in keep : j <= i
             IN  SubSeq(s, lo, hi)

\* start indices at which sub occurs in s
Occurrences(s, sub) ==
    {i \in 1..(Len(s) - Len(sub) + 1) : SubSeq(s, i, i + Len(sub) - 1) = sub}

\* Python `sub in s`
Contains(s, sub) == Occurrences(s, sub) # {}

\* s.split(sep)[1]: the text after the first occurrence of sep (s if none)
SplitFirst(s, sep) ==
    LET occ == Occurrences(s, sep)
    IN  IF occ = {} THEN s
        ELSE LET first == CHOOSE i \in occ : \A j \in occ : i <= j
             IN  SubSeq(s, first + Len(sep), Len(s))

\* s.split(sep)[-1]: the text after the last occurrence of sep (s if none)
SplitLast(s, sep) ==
    LET occ == Occurrences(s, sep)
    IN  IF occ = {} THEN s
        ELSE LET last == CHOOSE i \in occ : \A j \in occ : j <= i
             IN  SubSeq(s, last + Len(sep), Len(s))

\* s[:n]
Take(s, n) == SubSeq(s, 1, Min(n, Len(s)))

RECURSIVE Join(_, _)
\* sep.join(parts)
Join(sep, parts) ==
    IF parts = <<>> THEN <<>>
    ELSE IF Len(parts) = 1 THEN parts[1]
    ELSE parts[1] \o sep \o Join(sep, Tail(parts))

BlankLine == <<"\n", "\n">>

\* ------------------------------------------------------------ string values
CORRECT == <<"C","O","R","R","E","C","T">>

HALLUCINATION == <<"H","A","L","L","U","C","I","N","A","T","I","O","N">>

INCOMPLETE == <<"I","N","C","O","M","P","L","E","T","E">>

LABEL_MARK == <<"L","A","B","E","L",":">>

\* ------------------------------------------------- environment: the index
\* text of a passage shorter than the preview length
ShortText == <<"R","e","t","u","r","n","s",":"," ","3","0"," ","d","a","y","s">>

\* text of a passage of exactly PreviewLen characters
ExactText == [i \in 1..PreviewLen |-> "e"]

\* text of a passage longer than the preview length
LongText == [i \in 1..PreviewLen |-> "p"] \o <<"n","o"," ","r","e","f","u","n","d">>

\* langchain Document: page_content and metadata
Document(text, page) ==
    [page_content |-> text, metadata |-> [source |-> "policy.pdf", page |-> page]]

Corpus == {Document(ShortText, 1), Document(ExactText, 2), Document(LongText, 3)}

\* the relevance orders the index can answer a query with: sequences of
\* distinct passages (an index may hold any part of the corpus, or nothing)
Rankings ==
    {r \in UNION {[1..n -> Corpus] :
                     n \in 0..Min(MaxRetrieved, Cardinality(Corpus))} :
        \A i, j \in 1..Len(r) : i # j => r[i] # r[j]}

\* FAISS.similarity_search(question, k): the k best passages, best first
similarity_search(ranking, k) == SubSeq(ranking, 1, Min(k, Len(ranking)))

\* ------------------------------------------- environment: the two models
Question1 == <<"r","e","f","u","n","d","?">>

Question2 == <<"s","h","i","p","p","i","n","g","?">>

Questions == {Question1, Question2}

\* the questions of the offline evaluation set
EvalQuestions == {Question1}

\* what the generation model can return: a plain str (no .content attribute,
\* str() of it is itself), or a message object whose .content is the text and
\* whose str() is its repr
GenReplies ==
    {[has_content |-> FALSE, content |-> <<>>,
      str |-> <<"3","0"," ","d","a","y","s">>],
     [has_content |-> TRUE, content |-> <<"I"," ","d","o","n","'","t"," ","k","n","o","w">>,
      str |-> <<"c","o","n","t","e","n","t","=","'","I"," ","d","o","n","'","t"," ","k","n","o","w","'">>]}

\* judge texts that are not a bare label
PADDED_CORRECT == <<" ","c","o","r","r","e","c","t","\n">>

HALLUCINATION_DETECTED == <<"H","A","L","L","U","C","I","N","A","T","I","O","N"," ","D","E","T","E","C","T","E","D">>

INCORRECT == <<"I","N","C","O","R","R","E","C","T">>

CORRECT_INCOMPLETE == <<"C","O","R","R","E","C","T"," ","I","N","C","O","M","P","L","E","T","E">>

TWO_MARKERS == <<"L","a","b","e","l",":"," ","x"," ","l","a","b","e","l",":"," ","I","n","c","o","m","p","l","e","t","e">>

ENDS_WITH_MARKER == <<"H","a","l","l","u","c","i","n","a","t","i","o","n"," ","L","A","B","E","L",":">>

MAYBE == <<"m","a","y","b","e">>

\* raw texts the judge model can return
JudgeOutputs ==
    {CORRECT,
     HALLUCINATION,
     INCOMPLETE,
     PADDED_CORRECT,
     HALLUCINATION_DETECTED,
     INCORRECT,
     CORRECT_INCOMPLETE,
     TWO_MARKERS,
     ENDS_WITH_MARKER,
     MAYBE}

\* Ollama.invoke(prompt, **kwargs): the call as the model backend sees it;
\* a temperature keyword overrides the temperature the client was built with
Invocation(llm_temp, prompt, kwargs) ==
    [prompt |-> prompt,
     temperature |-> IF kwargs = None THEN llm_temp ELSE kwargs[1]]

\* ------------------------------------------------------- rag/pipeline.py
SYSTEM_TEMPLATE == <<"[SYSTEM_TEMPLATE]">>

\* RAGPipeline._build_prompt; the fixed parts of the f-string are one token each
_build_prompt(question, docs) ==
    LET context == Join(BlankLine, [i \in 1..Len(docs) |-> docs[i].page_content])
    IN  SYSTEM_TEMPLATE \o <<"<context>">> \o context \o <<"</context>">>
            \o <<"User question: ">> \o question

\* what ask would pass per call if it forwarded its temperature argument
invoke_kwargs_forwarding(temperature) == temperature

\* the keyword arguments of self.llm.invoke(prompt) in ask: none
invoke_kwargs(temperature) == None

\* the environment of one ask call: what the retriever and the generation
\* model do when called
AskEnvs ==
    {[retriever_raises |-> TRUE, llm_raises |-> FALSE, ranking |-> <<>>, reply |-> g] :
        g \in {CHOOSE g \in GenReplies : TRUE}}
    \cup {[retriever_raises |-> FALSE, llm_raises |-> TRUE, ranking |-> r, reply |-> g] :
        r \in Rankings, g \in {CHOOSE g \in GenReplies : TRUE}}
    \cup {[retriever_raises |-> FALSE, llm_raises |-> FALSE, ranking |-> r, reply |-> g] :
        r \in Rankings, g \in GenReplies}

\* RAGPipeline.ask: outcome of one call in environment env
ask(question, chat_history, top_k, temperature, env) ==
    LET k == OrElse(top_k, top_k_default)
        docs == similarity_search(env.ranking, k)
        prompt == _build_prompt(question, docs)
        invocation == Invocation(llm_temperature, prompt, invoke_kwargs(temperature))
        answer == IF env.reply.has_content THEN env.reply.content ELSE env.reply.str
        meta == [num_sources |-> Len(docs),
                 sources |-> [i \in 1..Len(docs) |->
                     [page_content |-> Take(docs[i].page_content, PreviewLen),
                      metadata |-> docs[i].metadata]]]
    IN  IF env.retriever_raises
        THEN [raised |-> TRUE, error |-> "RetrievalFailure", retrievals |-> 1,
              invocations |-> <<>>, docs |-> <<>>, answer |-> <<>>,
              meta |-> [num_sources |-> 0, sources |-> <<>>]]
        ELSE IF env.llm_raises
        THEN [raised |-> TRUE, error |-> "GenerationFailure", retrievals |-> 1,
              invocations |-> <<invocation>>, docs |-> docs, answer |-> <<>>,
              meta |-> [num_sources |-> 0, sources |-> <<>>]]
        ELSE [raised |-> FALSE, error |-> "", retrievals |-> 1,
              invocations |-> <<invocation>>, docs |-> docs, answer |-> answer,
              meta |-> meta]

\* ------------------------------------------------------ rag/evaluator.py
\* InlineLLMJudge._build_critic_prompt; the fixed parts are one token each
_build_critic_prompt(base_context, answer) ==
    <<"[JUDGE_INSTRUCTIONS]">> \o <<"=== CONTEXT ===">> \o base_context
        \o <<"=== ASSISTANT ANSWER ===">> \o answer \o <<"LABEL:">>

\* feedback = str(feedback_raw).strip().upper(), then the text after the
\* last "LABEL:" if the marker occurs
normalize(feedback_raw) ==
    LET feedback == upper(strip(feedback_raw))
    IN  IF Contains(feedback, LABEL_MARK)
        THEN strip(SplitLast(feedback, LABEL_MARK))
        ELSE feedback

\* the flag set on the substring alone
is_correct_loose(feedback) == Contains(feedback, CORRECT)

\* the flag set on the exact label alone
is_correct_exact(feedback) == feedback = CORRECT

is_correct(feedback) ==
    \/ feedback = CORRECT
    \/ /\ Contains(feedback, CORRECT)
       /\ ~Contains(feedback, HALLUCINATION)
       /\ ~Contains(feedback, INCOMPLETE)

\* the hallucination test done by substring, like the CORRECT one
is_halluc_contains(feedback) == Contains(feedback, HALLUCINATION)

is_halluc(feedback) == feedback = HALLUCINATION

\* every text that is not a hallucination counted as incomplete
is_incomplete_default(feedback) == feedback # HALLUCINATION

is_incomplete(feedback) == feedback = INCOMPLETE

\* a cycle record that keeps the judge text even when the cycle is correct
CritiqueResult_keep(cycle, answer, feedback) ==
    [cycle |-> cycle, answer |-> answer, critique |-> Some(feedback),
     is_correct |-> is_correct(feedback)]

\* a cycle record whose flag is set on the exact label only
CritiqueResult_exact(cycle, answer, feedback) ==
    [cycle |-> cycle, answer |-> answer,
     critique |-> IF is_correct(feedback) THEN None ELSE Some(feedback),
     is_correct |-> (feedback = CORRECT)]

\* the CritiqueResult appended in a cycle
CritiqueResult(cycle, answer, feedback) ==
    [cycle |-> cycle, answer |-> answer,
     critique |-> IF is_correct(feedback) THEN None ELSE Some(feedback),
     is_correct |-> is_correct(feedback)]

\* a counter that is never reset
streak_cumulative(count, hit) == IF hit THEN count + 1 ELSE count

\* halluc_count + 1 if is_halluc else 0 (and the same for incomplete_count)
streak(count, hit) == IF hit THEN count + 1 ELSE 0

\* a streak test that needs three in a row
streak_reached_three(count) == count >= 3

\* a streak test that a single verdict satisfies
streak_reached_one(count) == count >= 1

\* halluc_count >= 2, incomplete_count >= 2
streak_reached(count) == count >= 2

\* Python range(start, stop), as the sequence of its values
range(start, stop) ==
    [i \in 1..(IF stop > start THEN stop - start ELSE 0) |-> start + i - 1]

\* a loop that runs one cycle more
loop_range_long(max) == range(1, max + 2)

\* a 0-based loop counter
loop_range_zero_based(max) == range(0, max)

\* a loop that stops one cycle short
loop_range_short(max) == range(1, max)

\* the values of cycle in `for cycle in range(1, self.max_cycles + 1)`
loop_range(max) == range(1, max + 1)

\* a return value that reads a key meta does not have
Result_no_sources(st, label) ==
    [answer |-> st.answer, label |-> label, cycles |-> st.cycles, sources |-> <<>>]

\* the dict evaluate_answer returns
Result(st, label) ==
    [answer |-> st.answer, label |-> label, cycles |-> st.cycles,
     sources |-> st.meta.sources]

\* a judge call wrapped in try/except that gives up with what it has
on_judge_error_swallow(st) ==
    [st EXCEPT !.pc = "returned", !.result = Some(Result(st, "MAX_CYCLES"))]

\* the judge call is not guarded: the exception leaves evaluate_answer
on_judge_error(st) == [st EXCEPT !.pc = "raised", !.error = "JudgeFailure"]

\* the frame of an evaluate_answer call that has not started
NewRun ==
    [pc |-> "call", question |-> <<>>, answer |-> <<>>,
     meta |-> [num_sources |-> 0, sources |-> <<>>], base_context |-> <<>>,
     iterations |-> 0, cycles |-> <<>>, reflection_history |-> <<>>,
     halluc_count |-> 0, incomplete_count |-> 0,
     result |-> None, error |-> "",
     ask_calls |-> 0, judge_calls |-> 0, docs |-> <<>>,
     judge_invocation |-> None,
     ask_env |-> None, heard |-> <<>>, printed |-> <<>>]

\* leaving the for loop: either the next cycle, or the final return
loop_next(st, max) ==
    IF st.iterations < Len(loop_range(max))
    THEN [st EXCEPT !.pc = "loop"]
    ELSE [st EXCEPT !.pc = "returned", !.result = Some(Result(st, "MAX_CYCLES"))]

\* evaluate_answer up to its first judge call: the ask call, base_context,
\* and the test of the for loop
evaluate_begin(st, question, env, max) ==
    LET out == ask(question, <<>>, None, None, env)
        called == [st EXCEPT !.question = question, !.ask_calls = @ + 1,
                             !.docs = out.docs, !.ask_env = Some(env)]
    IN  IF out.raised
        THEN [called EXCEPT !.pc = "raised", !.error = out.error]
        ELSE LET sources == out.meta.sources
                 base_context == Join(BlankLine,
                     [i \in 1..Len(sources) |-> sources[i].page_content])
             IN  loop_next([called EXCEPT !.answer = out.answer, !.meta = out.meta,
                                         !.base_context = base_context], max)

\* what the judge model does when called
JudgeEnvs ==
    {[raises |-> TRUE, text |-> <<>>]}
    \cup {[raises |-> FALSE, text |-> t] : t \in JudgeOutputs}

\* one iteration of the for loop of evaluate_answer, and what follows it up
\* to the next judge call or the return
evaluate_cycle(st, jenv, max) ==
    LET cycle == loop_range(max)[st.iterations + 1]
        critic_prompt == _build_critic_prompt(st.base_context, st.answer)
        invoked == [st EXCEPT !.iterations = @ + 1, !.judge_calls = @ + 1,
                     !.judge_invocation =
                         Some(Invocation(judge_temperature, critic_prompt, None)),
                     !.heard = Append(@, jenv)]
        feedback == normalize(jenv.text)
        appended == [invoked EXCEPT
                        !.printed = Append(@, feedback),
                        !.cycles = Append(@, CritiqueResult(cycle, st.answer, feedback))]
        counted == [appended EXCEPT
                        !.halluc_count = streak(@, is_halluc(feedback)),
                        !.incomplete_count = streak(@, is_incomplete(feedback))]
    IN  IF jenv.raises THEN on_judge_error(invoked)
        ELSE IF is_correct(feedback)
        THEN [appended EXCEPT !.pc = "returned",
                              !.result = Some(Result(appended, "CORRECT"))]
        ELSE IF streak_reached(counted.halluc_count)
        THEN [counted EXCEPT !.pc = "returned",
                             !.result = Some(Result(counted, "HALLUCINATION"))]
        ELSE IF streak_reached(counted.incomplete_count)
        THEN [counted EXCEPT !.pc = "returned",
                             !.result = Some(Result(counted, "INCOMPLETE"))]
        ELSE loop_next([counted EXCEPT !.reflection_history = Append(@, feedback)], max)

\* ------------------------------------------------------------ app/main.py
ENDPOINT == <<"/", "c", "h", "a", "t">>

\* a ChatRequest that leaves every optional field to its schema default
DefaultRequest ==
    [question |-> Question1, history |-> None, top_k |-> Some(5),
     temperature |-> Some(10)]

\* the bodies /chat is posted with (schemas.ChatRequest): the default one and
\* those that differ from it in one field
ChatRequests ==
    {req \in [question : Questions,
              history : {None, Some(<<>>)},
              top_k : {None, Some(0), Some(1), Some(5)},
              temperature : {None, Some(10), Some(70)}] :
        Cardinality({f \in DOMAIN req : req[f] # DefaultRequest[f]}) <= 1}

\* a sample that overwrites the count instead of adding to it
observe_reset(metric, labels) ==
    [l \in DOMAIN metric \cup {labels} |-> IF l = labels THEN 1 ELSE metric[l]]

\* Counter.labels(...).inc() and Histogram.labels(...).observe(): one more
\* sample under the given label values
observe(metric, labels) ==
    [l \in DOMAIN metric \cup {labels} |->
        IF l = labels THEN (IF l \in DOMAIN metric THEN metric[l] ELSE 0) + 1
        ELSE metric[l]]

\* an error handler that answers with a default text instead of failing
error_response_default(error) ==
    [status_code |-> 200, detail |-> "",
     answer |-> <<"S","o","r","r","y">>, num_sources |-> 0, sources |-> <<>>]

\* raise HTTPException(status_code=500, detail=str(e))
error_response(error) ==
    [status_code |-> 500, detail |-> error,
     answer |-> <<>>, num_sources |-> 0, sources |-> <<>>]

\* ChatResponse(answer=..., num_sources=..., sources=...)
ChatResponse(answer, meta) ==
    [status_code |-> 200, detail |-> "", answer |-> answer,
     num_sources |-> meta.num_sources, sources |-> meta.sources]

\* the four collectors of monitoring/metrics.py, with no samples
NoMetrics ==
    [RAG_REQUESTS |-> <<>>, RAG_ERRORS |-> <<>>, RAG_LATENCY |-> <<>>,
     RAG_RETRIEVED_CHUNKS |-> <<>>]

\* ------------------------------------------------------------------ state
\* the offline evaluation process: a judge built with some max_cycles, and one
\* evaluate_answer call about to be made; no request has been served
Init ==
    /\ max_cycles \in 0..MaxCyclesBound
    /\ runs = [r \in {1} |-> NewRun]
    /\ metrics = NoMetrics
    /\ handled = 0
    /\ failed = 0
    /\ asked = None
    /\ request = None
    /\ response = None
    /\ llm_invocation = None

\* the call the generation model received during an ask call, if any
LastInvocation(out) ==
    IF out.invocations = <<>> THEN None ELSE Some(out.invocations[Len(out.invocations)])

\* locals kept on the judge instance: every call works on the cycle list and
\* the counters of the first frame
locals_shared(rs, r) ==
    LET first == CHOOSE q \in DOMAIN rs : \A p \in DOMAIN rs : q <= p
    IN  [rs[r] EXCEPT !.cycles = rs[first].cycles,
                      !.halluc_count = rs[first].halluc_count,
                      !.incomplete_count = rs[first].incomplete_count]

\* cycles, the counters, answer, meta and base_context are locals of the
\* call: a step of call r reads and writes the frame of r only
locals(rs, r) == rs[r]

\* judge.evaluate_answer(question), from the call to the first judge call,
\* with the question and the behaviour of retriever and model drawn from the
\* given sets
EvaluateWith(questions, envs) ==
    /\ \E r \in DOMAIN runs, question \in questions, env \in envs :
        /\ runs[r].pc = "call"
        /\ runs' = [runs EXCEPT
                       ![r] = evaluate_begin(locals(runs, r), question, env, max_cycles)]
        /\ llm_invocation' = LastInvocation(ask(question, <<>>, None, None, env))
    /\ UNCHANGED <<max_cycles, metrics, handled, failed, asked, request, response>>

\* one cycle of the judge loop, with the behaviour of the judge drawn from jenvs
JudgeCycleWith(jenvs) ==
    /\ \E r \in DOMAIN runs, jenv \in jenvs :
        /\ runs[r].pc = "loop"
        /\ runs' = [runs EXCEPT
                       ![r] = evaluate_cycle(locals(runs, r), jenv, max_cycles)]
    /\ UNCHANGED <<max_cycles, metrics, handled, failed, asked, request, response,
                   llm_invocation>>

Evaluate == EvaluateWith(EvalQuestions, AskEnvs)

JudgeCycle == JudgeCycleWith(JudgeEnvs)

\* POST /chat
chat ==
    /\ handled < MaxRequests
    /\ \E req \in ChatRequests, env \in AskEnvs :
        LET endpoint == ENDPOINT
            counted == [metrics EXCEPT
                           !.RAG_REQUESTS = observe(@, <<endpoint>>)]
            out == ask(req.question, OrElse(req.history, <<>>), req.top_k,
                       req.temperature, env)
        IN  /\ request' = Some(req)
            /\ llm_invocation' = LastInvocation(out)
            /\ asked' = Some([raised |-> out.raised, error |-> out.error,
                              retrievals |-> out.retrievals,
                              invocations |-> Len(out.invocations)])
            /\ failed' = failed + (IF out.raised THEN 1 ELSE 0)
            /\ IF out.raised
               THEN /\ metrics' = [counted EXCEPT
                                      !.RAG_ERRORS = observe(@, <<endpoint>>)]
                    /\ response' = Some(error_response(out.error))
               ELSE /\ metrics' = [counted EXCEPT
                                      !.RAG_LATENCY = observe(@, <<endpoint>>),
                                      !.RAG_RETRIEVED_CHUNKS = observe(@, <<>>)]
                    /\ response' = Some(ChatResponse(out.answer, out.meta))
    /\ handled' = handled + 1
    /\ UNCHANGED <<max_cycles, runs>>

Next == Evaluate \/ JudgeCycle

Spec == Init /\ [][Next]_vars

\* the server process of app/main.py: it builds a pipeline and no judge
InitChat ==
    /\ max_cycles = max_cycles_default
    /\ runs = <<>>
    /\ metrics = NoMetrics
    /\ handled = 0
    /\ failed = 0
    /\ asked = None
    /\ request = None
    /\ response = None
    /\ llm_invocation = None

NextChat == chat

SpecChat == InitChat /\ [][NextChat]_vars

\* ------------------------------------------------------ concurrent calls
\* retriever and generation model return: one short passage, either reply
ConcAskEnvs ==
    {[retriever_raises |-> FALSE, llm_raises |-> FALSE,
      ranking |-> <<Document(ShortText, 1)>>, reply |-> g] : g \in GenReplies}

\* the judge raises, or returns one of the three labels
ConcJudgeEnvs ==
    {[raises |-> TRUE, text |-> <<>>]}
    \cup {[raises |-> FALSE, text |-> t] : t \in {CORRECT, HALLUCINATION, INCOMPLETE}}

\* one judge built as the offline evaluation builds it, and NumRuns calls of
\* evaluate_answer about to be made on it
InitConc ==
    /\ max_cycles = max_cycles_offline
    /\ runs = [r \in 1..NumRuns |-> NewRun]
    /\ metrics = NoMetrics
    /\ handled = 0
    /\ failed = 0
    /\ asked = None
    /\ request = None
    /\ response = None
    /\ llm_invocation = None

EvaluateConc == EvaluateWith(EvalQuestions, ConcAskEnvs)

JudgeCycleConc == JudgeCycleWith(ConcJudgeEnvs)

\* the calls take their steps in any order
NextConc == EvaluateConc \/ JudgeCycleConc

SpecConc == InitConc /\ [][NextConc]_vars

\* ------------------------------------------------- calls that all return
\* a judge built with any max_cycles, zero and negative included
InitLive ==
    /\ max_cycles \in (-1)..MaxCyclesBound
    /\ runs = [r \in {1} |-> NewRun]
    /\ metrics = NoMetrics
    /\ handled = 0
    /\ failed = 0
    /\ asked = None
    /\ request = None
    /\ response = None
    /\ llm_invocation = None

\* the retriever and the generation model return
EvaluateReturning ==
    EvaluateWith(EvalQuestions,
                 {env \in AskEnvs : ~env.retriever_raises /\ ~env.llm_raises})

\* the judge model returns
JudgeCycleReturning == JudgeCycleWith({jenv \in JudgeEnvs : ~jenv.raises})

NextLive == EvaluateReturning \/ JudgeCycleReturning

\* a frame that waits for ask to return or for the judge to return
Pending == \E r \in DOMAIN runs : runs[r].pc \in {"call", "loop"}

\* <<NextLive>>_vars is enabled exactly in the states with a pending frame
PendingIsEnabled == (ENABLED <<NextLive>>_vars) <=> Pending

\* evaluate_answer is synchronous: when the call it waits for returns, it
\* takes its next step. This is weak fairness of NextLive, WF_vars(NextLive),
\* written out as "infinitely often not enabled, or infinitely often taken":
\* ENABLED <<NextLive>>_vars is Pending (PendingIsEnabled), and under
\* [][NextLive]_vars the steps that change vars are the NextLive steps.
Returns == []<>(~Pending) \/ []<><<TRUE>>_vars

SpecLive == InitLive /\ [][NextLive]_vars /\ Returns

\* ----------------------------------------------------------- properties
\* the verdict a recorded cycle was classified with
Verdict(c) ==
    IF c.is_correct THEN "CORRECT"
    ELSE IF c.critique = Some(HALLUCINATION) THEN "HALLUCINATION"
    ELSE IF c.critique = Some(INCOMPLETE) THEN "INCOMPLETE"
    ELSE "UNRECOGNIZED"

Verdicts(st) == [i \in 1..Len(st.cycles) |-> Verdict(st.cycles[i])]

\* cycles i-1 and i were both classified v
Pair(st, i, v) == i >= 2 /\ Verdict(st.cycles[i - 1]) = v /\ Verdict(st.cycles[i]) = v

HasPair(st, v) == \E i \in 1..Len(st.cycles) : Pair(st, i, v)

HasCorrect(st) == \E i \in 1..Len(st.cycles) : st.cycles[i].is_correct

\* the run returned label with the n cycles run so far, after n judge calls
ReturnedWith(st, label, n) ==
    /\ st.pc = "returned"
    /\ st.result # None
    /\ st.result[1].label = label
    /\ st.result[1].cycles = st.cycles
    /\ Len(st.cycles) = n
    /\ st.judge_calls = n

\* C1: two consecutive cycles classified HALLUCINATION (resp. INCOMPLETE) end
\* the run at the second of them: wherever such a pair stands in the cycle
\* list it is the end of the list, the run has returned that label with
\* exactly that many cycles, and the judge was called exactly that many times.
C1_StreakTerminates ==
    \A r \in DOMAIN runs : \A v \in {"HALLUCINATION", "INCOMPLETE"} :
        \A c \in 1..Len(runs[r].cycles) :
            Pair(runs[r], c, v) =>
                /\ c <= max_cycles
                /\ ReturnedWith(runs[r], v, c)

C1_Witness ==
    \E r \in DOMAIN runs :
        /\ max_cycles = 3
        /\ Verdicts(runs[r]) = <<"HALLUCINATION", "HALLUCINATION">>
        /\ runs[r].pc = "returned"

\* the number of cycles at the end of the list that were classified v
RECURSIVE Trailing(_, _)
Trailing(vs, v) ==
    IF vs = <<>> \/ vs[Len(vs)] # v THEN 0
    ELSE 1 + Trailing(SubSeq(vs, 1, Len(vs) - 1), v)

\* C2: the streak counters count consecutive verdicts only: after a cycle that
\* is not correct each counter is the number of cycles at the end of the list
\* with its verdict; HALLUCINATION, INCOMPLETE, HALLUCINATION with
\* max_cycles = 3 returns MAX_CYCLES with 3 cycles; label HALLUCINATION is
\* returned only when the last two cycles are both HALLUCINATION.
C2_ConsecutiveOnly ==
    \A r \in DOMAIN runs :
        LET st == runs[r]
            vs == Verdicts(st)
        IN  /\ (~HasCorrect(st) /\ st.judge_calls = Len(st.cycles)) =>
                   /\ st.halluc_count = Trailing(vs, "HALLUCINATION")
                   /\ st.incomplete_count = Trailing(vs, "INCOMPLETE")
            /\ (vs = <<"HALLUCINATION", "INCOMPLETE", "HALLUCINATION">>
                    /\ max_cycles = 3) =>
                   ReturnedWith(st, "MAX_CYCLES", 3)
            /\ (st.result # None /\ st.result[1].label = "HALLUCINATION") =>
                   Pair(st, Len(st.cycles), "HALLUCINATION")

C2_Witness ==
    \E r \in DOMAIN runs :
        /\ max_cycles = 3
        /\ Verdicts(runs[r]) = <<"HALLUCINATION", "INCOMPLETE", "HALLUCINATION">>
        /\ runs[r].pc = "returned"

\* C3: a cycle classified CORRECT is the last cycle of its run: the run has
\* returned label CORRECT with the cycles run so far, the judge was called once
\* per cycle, and the record of that cycle has is_correct true and no critique.
C3_CorrectTerminates ==
    \A r \in DOMAIN runs : \A c \in 1..Len(runs[r].cycles) :
        Verdict(runs[r].cycles[c]) = "CORRECT" =>
            /\ ReturnedWith(runs[r], "CORRECT", c)
            /\ runs[r].cycles[c].is_correct
            /\ runs[r].cycles[c].critique = None

C3_Witness ==
    \E r \in DOMAIN runs :
        /\ Verdicts(runs[r]) = <<"CORRECT">>
        /\ runs[r].pc = "returned"
        /\ max_cycles > 1

\* C4: once max_cycles cycles have run with no cycle correct and no two
\* consecutive HALLUCINATION or INCOMPLETE, the run has returned MAX_CYCLES with
\* all max_cycles records; and MAX_CYCLES is returned in no other situation.
C4_MaxCycles ==
    \A r \in DOMAIN runs :
        LET st == runs[r]
            exhausted == /\ Len(st.cycles) = max_cycles
                         /\ ~HasCorrect(st)
                         /\ ~HasPair(st, "HALLUCINATION")
                         /\ ~HasPair(st, "INCOMPLETE")
        IN  /\ (st.pc \in {"loop", "returned"} /\ exhausted) =>
                   ReturnedWith(st, "MAX_CYCLES", max_cycles)
            /\ (st.result # None /\ st.result[1].label = "MAX_CYCLES") =>
                   exhausted /\ st.result[1].cycles = st.cycles

C4_Witness ==
    \E r \in DOMAIN runs :
        /\ max_cycles = 3
        /\ runs[r].result # None
        /\ runs[r].result[1].label = "MAX_CYCLES"
        /\ Len(runs[r].result[1].cycles) = 3

\* C5: in every returned result, the label is CORRECT exactly when the last
\* cycle record has is_correct true, and every earlier record has it false.
C5_LabelIffLastCorrect ==
    \A r \in DOMAIN runs :
        runs[r].result # None =>
            LET res == runs[r].result[1]
                n == Len(res.cycles)
            IN  /\ (res.label = "CORRECT") <=> (n > 0 /\ res.cycles[n].is_correct)
                /\ \A i \in 1..(n - 1) : ~res.cycles[i].is_correct

C5_Witness ==
    \E r \in DOMAIN runs :
        /\ runs[r].result # None
        /\ runs[r].result[1].label = "CORRECT"
        /\ Len(runs[r].result[1].cycles) = 2

\* C6: in every step of a run the cycle records carry the cycle values
\* 1, 2, ..., n in order, the records already present are kept unchanged, and a
\* record is appended exactly in the steps in which a judge call returned, one
\* record per such step.
C6_CyclesAppendOnly ==
    [][\A r \in DOMAIN runs :
        LET old == runs[r].cycles
            new == runs'[r].cycles
            judged == runs'[r].judge_calls = runs[r].judge_calls + 1
                          /\ runs'[r].pc # "raised"
        IN  /\ \A i \in 1..Len(new) : new[i].cycle = i
            /\ Len(new) >= Len(old)
            /\ SubSeq(new, 1, Len(old)) = old
            /\ Len(new) = Len(old) + (IF judged THEN 1 ELSE 0)
            /\ Len(new) = runs'[r].iterations - (IF runs'[r].pc = "raised"
                                                   /\ runs'[r].judge_calls > 0
                                                 THEN 1 ELSE 0)]_vars

C6_Witness ==
    \E r \in DOMAIN runs :
        /\ Len(runs[r].cycles) = 3
        /\ \A i \in 1..3 : runs[r].cycles[i].cycle = i
        /\ runs[r].judge_calls = 3

\* the previews ask puts into meta["sources"] for the passages docs
Previews(docs) ==
    [i \in 1..Len(docs) |->
        [page_content |-> Take(docs[i].page_content, PreviewLen),
         metadata |-> docs[i].metadata]]

\* C7: a run calls RAGPipeline.ask exactly once, before its first judge call;
\* a step that calls the judge makes no ask call, no retrieval and no
\* generation-model call and leaves answer, meta and the retrieved passages
\* unchanged; every cycle record and the result carry the answer of that call,
\* and the result's sources are the previews of the passages it retrieved.
C7_SingleAsk ==
    [][\A r \in DOMAIN runs :
        LET st == runs[r]
            nx == runs'[r]
        IN  /\ nx.ask_calls = (IF nx.pc = "call" THEN 0 ELSE 1)
            /\ nx.judge_calls > st.judge_calls =>
                   /\ st.ask_calls = 1 /\ nx.ask_calls = 1
                   /\ nx.answer = st.answer /\ nx.meta = st.meta /\ nx.docs = st.docs
                   /\ llm_invocation' = llm_invocation
            /\ nx.pc \in {"loop", "returned"} =>
                   /\ llm_invocation' # None
                   /\ llm_invocation'[1].prompt = _build_prompt(nx.question, nx.docs)
                   /\ \E g \in GenReplies : nx.answer \in {g.content, g.str}
            /\ \A i \in 1..Len(nx.cycles) : nx.cycles[i].answer = nx.answer
            /\ nx.result # None =>
                   /\ nx.result[1].answer = nx.answer
                   /\ nx.result[1].sources = Previews(nx.docs)]_vars

C7_Witness ==
    \E r \in DOMAIN runs :
        /\ runs[r].result # None
        /\ Len(runs[r].result[1].cycles) = 3
        /\ Len(runs[r].result[1].sources) = 2
        /\ runs[r].ask_calls = 1

\* C8: a step in which the judge is called and no record is appended (the
\* call raised) ends the run as raised with no result; a raised run has no
\* result, a returned run has one, and a run that has raised or returned takes
\* no further step (no retry, no second result).
C8_JudgeErrorPropagates ==
    [][\A r \in DOMAIN runs :
        LET st == runs[r]
            nx == runs'[r]
        IN  /\ (nx.judge_calls > st.judge_calls /\ nx.cycles = st.cycles) =>
                   /\ nx.pc = "raised"
                   /\ nx.judge_calls = st.judge_calls + 1
            /\ nx.pc \in {"call", "loop", "returned", "raised"}
            /\ nx.pc = "raised" => nx.result = None
            /\ nx.pc = "returned" <=> nx.result # None
            /\ st.pc \in {"raised", "returned"} => nx = st]_vars

C8_Witness ==
    \E r \in DOMAIN runs :
        /\ runs[r].pc = "raised"
        /\ runs[r].error = "JudgeFailure"
        /\ Len(runs[r].cycles) = 2
        /\ runs[r].judge_calls = 3
        /\ runs[r].result = None

\* C9: the context in every critique prompt sent to the judge is the
\* blank-line-separated full text of the passages the retriever returned.
C9_JudgeSeesFullText ==
    \A r \in DOMAIN runs :
        runs[r].judge_invocation # None =>
            runs[r].judge_invocation[1].prompt =
                _build_critic_prompt(
                    Join(BlankLine, [i \in 1..Len(runs[r].docs) |->
                                        runs[r].docs[i].page_content]),
                    runs[r].answer)

Count(metric, labels) == IF labels \in DOMAIN metric THEN metric[labels] ELSE 0

\* C11 as stated: after any sequence of /chat requests the request counter,
\* the latency observations and the retrieved-chunk observations, each under
\* the endpoint name, equal the number of requests handled.
C11_AllObservedPerRequest ==
    /\ Count(metrics.RAG_REQUESTS, <<ENDPOINT>>) = handled
    /\ Count(metrics.RAG_LATENCY, <<ENDPOINT>>) = handled
    /\ Count(metrics.RAG_RETRIEVED_CHUNKS, <<ENDPOINT>>) = handled

\* C11 as amended: the request counter equals the number of requests handled,
\* the error counter the number that failed inside ask, and the latency and
\* retrieved-chunk histograms each hold one observation per request that
\* succeeded; the two counters and the latency histogram are keyed by the
\* endpoint name, the retrieved-chunk histogram has no label.
C11_MetricsPerOutcome ==
    /\ Count(metrics.RAG_REQUESTS, <<ENDPOINT>>) = handled
    /\ Count(metrics.RAG_ERRORS, <<ENDPOINT>>) = failed
    /\ Count(metrics.RAG_LATENCY, <<ENDPOINT>>) = handled - failed
    /\ Count(metrics.RAG_RETRIEVED_CHUNKS, <<>>) = handled - failed
    /\ DOMAIN metrics.RAG_REQUESTS \subseteq {<<ENDPOINT>>}
    /\ DOMAIN metrics.RAG_ERRORS \subseteq {<<ENDPOINT>>}
    /\ DOMAIN metrics.RAG_LATENCY \subseteq {<<ENDPOINT>>}
    /\ DOMAIN metrics.RAG_RETRIEVED_CHUNKS \subseteq {<<>>}

C11_Witness ==
    /\ handled = 2
    /\ failed = 1
    /\ response # None
    /\ response[1].status_code = 200

\* C12: a /chat request whose ask call raised made one retriever call and at
\* most one generation-model call, got status 500 with the error's message as
\* detail and no answer or sources, and added exactly one to the error
\* counter; a request whose ask call returned leaves the error counter alone.
C12_AskErrorSurfaces ==
    [][asked' # None =>
        LET out == asked'[1]
            resp == response'[1]
            errors_before == Count(metrics.RAG_ERRORS, <<ENDPOINT>>)
            errors_after == Count(metrics'.RAG_ERRORS, <<ENDPOINT>>)
        IN  /\ out.retrievals = 1
            /\ out.invocations <= 1
            /\ out.raised =>
                   /\ out.error \in {"RetrievalFailure", "GenerationFailure"}
                   /\ resp.status_code = 500
                   /\ resp.detail = out.error
                   /\ resp.answer = <<>>
                   /\ resp.sources = <<>>
                   /\ errors_after = errors_before + 1
            /\ ~out.raised =>
                   /\ resp.status_code = 200
                   /\ errors_after = errors_before]_vars

C12_Witness ==
    /\ asked # None
    /\ asked[1].raised
    /\ asked[1].error = "GenerationFailure"
    /\ asked[1].invocations = 1
    /\ response[1].status_code = 500
    /\ Count(metrics.RAG_ERRORS, <<ENDPOINT>>) = 2

RECURSIVE AloneCycles(_, _, _)
\* the frame a call reaches from st when it hears jenvs from the judge
AloneCycles(st, jenvs, max) ==
    IF jenvs = <<>> THEN st
    ELSE AloneCycles(evaluate_cycle(st, Head(jenvs), max), Tail(jenvs), max)

\* the frame of a call that runs with no other call in flight, asks
\* question in ask_env and hears heard from the judge
Alone(question, ask_env, heard, max) ==
    IF ask_env = None THEN NewRun
    ELSE AloneCycles(evaluate_begin(NewRun, question, ask_env[1], max), heard, max)

\* C13: with several evaluate_answer calls in flight on one judge, in any
\* interleaving, no step writes the judge's max_cycles, a step of one call
\* leaves the frame of every other call unchanged, and the frame it gives its
\* own call (cycle list, counters, answer, context, result) is the one the call
\* reaches when run alone with the same ask outcome and the same judge outputs.
C13_RunsIndependent ==
    [][/\ max_cycles' = max_cycles
       /\ \A r \in DOMAIN runs :
            runs'[r] # runs[r] =>
                /\ \A q \in DOMAIN runs \ {r} : runs'[q] = runs[q]
                /\ runs'[r] = Alone(runs'[r].question, runs'[r].ask_env,
                                    runs'[r].heard, max_cycles')]_vars

C13_Witness ==
    /\ Cardinality(DOMAIN runs) >= 2
    /\ runs[1].pc = "loop" /\ runs[1].halluc_count = 1
    /\ runs[2].pc = "returned" /\ runs[2].result[1].label = "INCOMPLETE"
    /\ runs[1].answer # runs[2].answer

\* call r's step from st to nx was a cycle whose judge call returned
Judged(st, nx) == Len(nx.printed) = Len(st.printed) + 1

\* the normalized judge text of the last cycle, as printed
LastText(st) == st.printed[Len(st.printed)]

LastCycle(st) == st.cycles[Len(st.cycles)]

\* C14: in a cycle, the hallucination (resp. incomplete) counter grows only
\* when the normalized text is exactly HALLUCINATION (resp. INCOMPLETE), and
\* then by one; a text that contains the token without being equal to it
\* gives a record with is_correct false and the text as critique, and leaves
\* that counter at 0; label HALLUCINATION (resp. INCOMPLETE) is returned only
\* in a cycle whose text is exactly the token.
C14_StrictEquality ==
    [][\A r \in DOMAIN runs :
        LET st == runs[r]
            nx == runs'[r]
            f == LastText(nx)
            rec == LastCycle(nx)
            label == IF nx.result = None THEN "" ELSE nx.result[1].label
        IN  Judged(st, nx) =>
                /\ nx.halluc_count > st.halluc_count => f = HALLUCINATION
                /\ nx.incomplete_count > st.incomplete_count => f = INCOMPLETE
                /\ f = HALLUCINATION => nx.halluc_count = st.halluc_count + 1
                /\ f = INCOMPLETE => nx.incomplete_count = st.incomplete_count + 1
                /\ (Contains(f, HALLUCINATION) /\ f # HALLUCINATION) =>
                       /\ ~rec.is_correct /\ rec.critique = Some(f)
                       /\ nx.halluc_count = 0
                       /\ label # "HALLUCINATION"
                /\ (Contains(f, INCOMPLETE) /\ f # INCOMPLETE) =>
                       /\ ~rec.is_correct /\ rec.critique = Some(f)
                       /\ nx.incomplete_count = 0
                       /\ label # "INCOMPLETE"]_vars

C14_Witness ==
    \E r \in DOMAIN runs :
        /\ runs[r].printed = <<HALLUCINATION, HALLUCINATION_DETECTED>>
        /\ runs[r].halluc_count = 0
        /\ runs[r].pc = "loop"

\* C15: the record of a cycle has is_correct true exactly when the normalized
\* text equals CORRECT, or contains CORRECT and contains neither HALLUCINATION
\* nor INCOMPLETE; and for no cycle do two of the three verdicts hold.
C15_CorrectRule ==
    \A r \in DOMAIN runs : \A i \in 1..Len(runs[r].cycles) :
        LET f == runs[r].printed[i]
            rec == runs[r].cycles[i]
        IN  /\ rec.is_correct <=>
                   \/ f = CORRECT
                   \/ /\ Contains(f, CORRECT)
                      /\ ~Contains(f, HALLUCINATION)
                      /\ ~Contains(f, INCOMPLETE)
            /\ (Contains(f, CORRECT) /\ (Contains(f, HALLUCINATION)
                                             \/ Contains(f, INCOMPLETE))) =>
                   ~rec.is_correct
            /\ Cardinality({v \in {"C", "H", "I"} :
                   \/ v = "C" /\ rec.is_correct
                   \/ v = "H" /\ f = HALLUCINATION
                   \/ v = "I" /\ f = INCOMPLETE}) <= 1
            /\ ~(runs[r].halluc_count > 0 /\ runs[r].incomplete_count > 0)

C15_Witness ==
    \E r \in DOMAIN runs :
        /\ Len(runs[r].heard) = 2
        /\ runs[r].heard[2].text = PADDED_CORRECT
        /\ runs[r].printed = <<CORRECT_INCOMPLETE, CORRECT>>
        /\ ~runs[r].cycles[1].is_correct
        /\ runs[r].cycles[2].is_correct

IsLower(c) == \E i \in 1..26 : LowerChars[i] = c

\* C16: the text a cycle classifies is upper case, has no whitespace at
\* either end and holds no "LABEL:"; it is the upper-cased trimmed judge output
\* when that holds no marker, and otherwise the trimmed rest of it after a
\* marker; " correct\n" gives CORRECT, an output with two markers (in lower
\* and mixed case) gives the text after the second, and an output that ends
\* with the marker gives the empty text, recorded as a not-correct cycle that
\* grows neither counter.
C16_Normalization ==
    \A r \in DOMAIN runs : \A i \in 1..Len(runs[r].printed) :
        LET raw == runs[r].heard[i].text
            whole == upper(strip(raw))
            f == runs[r].printed[i]
        IN  /\ \A j \in 1..Len(f) : ~IsLower(f[j])
            /\ f # <<>> => f[1] \notin Whitespace /\ f[Len(f)] \notin Whitespace
            /\ ~Contains(f, LABEL_MARK)
            /\ ~Contains(whole, LABEL_MARK) => f = whole
            /\ Contains(whole, LABEL_MARK) =>
                   \E k \in Occurrences(whole, LABEL_MARK) :
                       f = strip(SubSeq(whole, k + Len(LABEL_MARK), Len(whole)))
            /\ raw = PADDED_CORRECT => f = CORRECT
            /\ raw = TWO_MARKERS => f = INCOMPLETE
            /\ raw = ENDS_WITH_MARKER =>
                   /\ f = <<>>
                   /\ ~runs[r].cycles[i].is_correct
                   /\ runs[r].cycles[i].critique = Some(<<>>)
                   /\ i = Len(runs[r].printed) =>
                          runs[r].halluc_count = 0 /\ runs[r].incomplete_count = 0

C16_Witness ==
    \E r \in DOMAIN runs :
        /\ Len(runs[r].heard) = 2
        /\ runs[r].heard[1].text = ENDS_WITH_MARKER
        /\ runs[r].heard[2].text = TWO_MARKERS
        /\ runs[r].printed = <<<<>>, INCOMPLETE>>
        /\ runs[r].incomplete_count = 1

\* a recorded cycle whose text matched none of the three verdicts
Unrecognized(st, i) ==
    /\ ~st.cycles[i].is_correct
    /\ st.printed[i] # HALLUCINATION
    /\ st.printed[i] # INCOMPLETE

\* C17: a cycle whose text matches none of the three verdicts raises nothing:
\* it appends a record with is_correct false and the text as critique, leaves
\* both counters at 0, and the run goes on to the next cycle when fewer than
\* max_cycles cycles have run and returns MAX_CYCLES otherwise; a run all of
\* whose cycles are unrecognized returns only after max_cycles cycles, with
\* label MAX_CYCLES.
C17_UnrecognizedContinues ==
    [][\A r \in DOMAIN runs :
        LET st == runs[r]
            nx == runs'[r]
            n == Len(nx.cycles)
        IN  (Judged(st, nx) /\ Unrecognized(nx, n)) =>
                /\ nx.pc # "raised"
                /\ n = Len(st.cycles) + 1
                /\ nx.cycles[n] = [cycle |-> n, answer |-> nx.answer,
                                   critique |-> Some(nx.printed[n]),
                                   is_correct |-> FALSE]
                /\ nx.halluc_count = 0 /\ nx.incomplete_count = 0
                /\ n < max_cycles => nx.pc = "loop" /\ nx.result = None
                /\ n >= max_cycles => ReturnedWith(nx, "MAX_CYCLES", max_cycles)
                /\ (\A i \in 1..n : Unrecognized(nx, i)) =>
                       (nx.pc = "returned" <=> n = max_cycles)]_vars

C17_Witness ==
    \E r \in DOMAIN runs :
        /\ max_cycles = 3
        /\ Len(runs[r].heard) = 3
        /\ runs[r].heard[1].text = MAYBE
        /\ runs[r].heard[2].text = HALLUCINATION_DETECTED
        /\ runs[r].heard[3].text = ENDS_WITH_MARKER
        /\ Len(runs[r].cycles) = 3
        /\ runs[r].pc = "returned"
        /\ runs[r].result[1].label = "MAX_CYCLES"

\* C18: a cycle whose text contains CORRECT without being equal to it, and
\* contains neither HALLUCINATION nor INCOMPLETE (INCORRECT is one), has a
\* record with is_correct true and no critique, and the run has returned label
\* CORRECT in that cycle.
C18_SubstringCorrect ==
    \A r \in DOMAIN runs : \A i \in 1..Len(runs[r].printed) :
        LET f == runs[r].printed[i]
        IN  (/\ Contains(f, CORRECT) /\ f # CORRECT
             /\ ~Contains(f, HALLUCINATION) /\ ~Contains(f, INCOMPLETE)) =>
                /\ runs[r].cycles[i].is_correct
                /\ runs[r].cycles[i].critique = None
                /\ ReturnedWith(runs[r], "CORRECT", i)

C18_Witness ==
    \E r \in DOMAIN runs :
        /\ Len(runs[r].printed) = 2
        /\ runs[r].heard[1].text = MAYBE
        /\ runs[r].printed[2] = INCORRECT
        /\ runs[r].pc = "returned"
        /\ runs[r].result[1].label = "CORRECT"

\* the text of a label
LabelText(label) == IF label = "HALLUCINATION" THEN HALLUCINATION ELSE INCOMPLETE

\* C19: label HALLUCINATION or INCOMPLETE is returned only with
\* max_cycles >= 2, at least 2 returned cycles, and the critiques of the last
\* two equal to the label; a judge built with the default max_cycles = 1 is
\* called at most once per run, and a run of it that returns has made exactly
\* one judge call and returns CORRECT or MAX_CYCLES.
C19_StreakNeedsTwoCycles ==
    \A r \in DOMAIN runs :
        LET st == runs[r]
        IN  /\ (st.result # None
                  /\ st.result[1].label \in {"HALLUCINATION", "INCOMPLETE"}) =>
                   LET res == st.result[1]
                       n == Len(res.cycles)
                   IN  /\ max_cycles >= 2
                       /\ n >= 2
                       /\ res.cycles[n].critique = Some(LabelText(res.label))
                       /\ res.cycles[n - 1].critique = Some(LabelText(res.label))
            /\ max_cycles = max_cycles_default =>
                   /\ st.judge_calls <= 1
                   /\ st.pc = "loop" => st.judge_calls = 0
                   /\ st.pc = "returned" =>
                          /\ st.judge_calls = 1
                          /\ st.result[1].label \in {"CORRECT", "MAX_CYCLES"}

C19_Witness ==
    \E r \in DOMAIN runs :
        /\ max_cycles = max_cycles_default
        /\ runs[r].printed = <<HALLUCINATION>>
        /\ runs[r].pc = "returned"
        /\ runs[r].result[1].label = "MAX_CYCLES"

\* C20: when every call to the retriever and the models returns, every run
\* eventually returns a result; at every point it has made at most max_cycles
\* judge calls (none for max_cycles <= 0), a returned result holds one cycle
\* record per judge call, and for max_cycles <= 0 the run returns right after
\* its single ask call with label MAX_CYCLES and an empty cycle list.
C20_Terminates ==
    /\ <>(\A r \in DOMAIN runs : runs[r].pc = "returned" /\ runs[r].result # None)
    /\ [](\A r \in DOMAIN runs :
            LET st == runs[r]
            IN  /\ st.pc # "raised"
                /\ st.judge_calls <= (IF max_cycles > 0 THEN max_cycles ELSE 0)
                /\ st.pc = "returned" =>
                       /\ st.result # None
                       /\ Len(st.result[1].cycles) = st.judge_calls
                /\ (max_cycles <= 0 /\ st.pc # "call") =>
                       /\ st.pc = "returned"
                       /\ st.ask_calls = 1
                       /\ st.judge_calls = 0
                       /\ st.result = Some([answer |-> st.answer, label |-> "MAX_CYCLES",
                                            cycles |-> <<>>,
                                            sources |-> st.meta.sources]))

C20_Witness ==
    \E r \in DOMAIN runs :
        /\ max_cycles = -1
        /\ runs[r].pc = "returned"
        /\ runs[r].ask_calls = 1
        /\ runs[r].judge_calls = 0
        /\ runs[r].result[1].label = "MAX_CYCLES"
        /\ runs[r].result[1].cycles = <<>>
        /\ Len(runs[r].result[1].sources) = 2

====
